---- MODULE Spec2Model ----
(***************************************************************************)
(* Sanitize V: the file-state transition engine (move_files_logic,         *)
(* revert_files_logic), the cache sweep (clear_cache_logic) and the        *)
(* persisted state they write, modelled from src/src/logic.py; the         *)
(* auto-clear scheduler (src/src/cache_scheduler.py) and the profile store  *)
(* (src/src/profiles.py).                                                  *)
(*                                                                         *)
(* Strings the code inspects character by character (file names, labels)   *)
(* are sequences of one-character strings.  A path is a record             *)
(* [d |-> directory, n |-> name]; directories are abstract canonical       *)
(* names (the result of os.path.abspath).                                  *)
(***************************************************************************)
EXTENDS Integers, Sequences, FiniteSets, TLC

VARIABLES
    fs,         \* the file system: [dirs, ent]
    pc,         \* "idle" | "returned": position of the caller (gui.run_forward / run_revert)
    last,       \* the call that has returned: arguments, result, log and file operations
    prev,       \* the call before it, when two calls were made in a row
    cache,      \* <source_dir>/data: whether it exists and the cache folders in it
    state_file, \* STATE_FILE (sanitize_v_state.json)
    clock,      \* datetime.now(), in ticks
    user_label, \* what the label prompt handed to move_files_logic
    label,      \* the label move_files_logic derived from it
    settings_file,  \* CACHE_SETTINGS_FILE (cache_settings.json)
    profiles_index, \* PROFILES_FILE (profiles_index.json)
    profile_files   \* PROFILES_DIR: file name (the profile id) -> content

vars == <<fs, pc, last, prev, cache, state_file, clock, user_label, label,
          settings_file, profiles_index, profile_files>>

----------------------------------------------------------------------------
(* Names and paths *)

FOLDER1_NAME == <<"m", "o", "d", "s">>
FOLDER2_NAME == <<"p", "l", "u", "g", "i", "n", "s">>
XML_FILENAME == <<"g", "t", "a", ".", "x", "m", "l">>
TemplateName == <<"n", "e", "w", ".", "x", "m", "l">>

Dirs == {"S", "D", "X"}

P(d, n) == [d |-> d, n |-> n]

NoPath == P("", <<>>)

\* os.path.splitext on a bare file name: the extension starts at the last
\* dot, unless only dots precede it.
LastDot(s) ==
    IF \E i \in 1..Len(s) : s[i] = "."
    THEN CHOOSE i \in 1..Len(s) : s[i] = "." /\ \A j \in (i+1)..Len(s) : s[j] # "."
    ELSE 0

splitext(s) ==
    LET i == LastDot(s) IN
    IF i = 0 \/ \A j \in 1..i : s[j] = "."
    THEN <<s, <<>>>>
    ELSE <<SubSeq(s, 1, i - 1), SubSeq(s, i, Len(s))>>

----------------------------------------------------------------------------
(* The label of the backup file (logic.py:157-167) *)

\* The characters of the model: alphanumeric ones (a lower-case letter, an
\* upper-case letter, a digit, and the letters of "backup"), the three the
\* code keeps besides, and punctuation.  A prompt result is typed over Chars.
Letters == {"a", "Z", "7", "b", "c", "k", "u", "p"}
Kept == {" ", "-", "_"}
Punct == {"!", "."}
Chars == {"a", "Z", "7"} \cup Kept \cup Punct

\* (mutant) the dot counts as a letter
isalnum_or_dot(c) == c \in Letters \cup {"."}

\* str.isalnum on one character
isalnum(c) == c \in Letters

\* "".join([c for c in user_label if c.isalnum() or c in (' ', '-', '_')])
RECURSIVE FilterLabel(_)
FilterLabel(s) ==
    IF s = <<>> THEN <<>>
    ELSE IF isalnum(Head(s)) \/ Head(s) \in Kept
         THEN <<Head(s)>> \o FilterLabel(Tail(s))
         ELSE FilterLabel(Tail(s))

\* str.strip(): leading and trailing whitespace removed
RECURSIVE lstrip(_)
lstrip(s) == IF s # <<>> /\ Head(s) = " " THEN lstrip(Tail(s)) ELSE s

RECURSIVE rstrip(_)
rstrip(s) ==
    IF s # <<>> /\ s[Len(s)] = " " THEN rstrip(SubSeq(s, 1, Len(s) - 1)) ELSE s

strip(s) == rstrip(lstrip(s))

BackupLabel == <<"b", "a", "c", "k", "u", "p">>

\* What a prompt hands back: prompt_callback absent, the dialog cancelled
\* (None), or the text typed.
NoCallback == [cb |-> FALSE, text |-> <<>>, none |-> TRUE]
Cancelled == [cb |-> TRUE, text |-> <<>>, none |-> TRUE]
Typed(s) == [cb |-> TRUE, text |-> s, none |-> FALSE]

\* logic.py:157-167: label = "backup"; if prompt_callback: user_label = ...;
\* if user_label: label = filtered and stripped
LabelOf(prompt) ==
    IF prompt.cb /\ ~prompt.none /\ prompt.text # <<>>
    THEN strip(FilterLabel(prompt.text))
    ELSE BackupLabel

\* logic.py:171-172: name, ext = splitext(xml_filename); f"{name}_{label}{ext}"
LabeledName(xml_filename, lbl) ==
    LET ne == splitext(xml_filename) IN ne[1] \o <<"_">> \o lbl \o ne[2]

----------------------------------------------------------------------------
(* The file system: fs.dirs are the directories that exist, fs.ent maps    *)
(* each existing entry (a folder or a file) to its content.                *)

Exists(f, p) == p \in DOMAIN f.ent
DirExists(f, d) == d \in f.dirs

makedirs(f, d) == [f EXCEPT !.dirs = @ \cup {d}]

\* shutil.rmtree / os.remove
rmtree(f, p) == [f EXCEPT !.ent = [q \in (DOMAIN @) \ {p} |-> @[q]]]

\* (mutant) the folder is copied and the original left in place
move_keeps_source(f, src, dst) ==
    IF src = dst \/ ~(src \in DOMAIN f.ent) THEN f
    ELSE [f EXCEPT !.ent =
            [q \in (DOMAIN @) \cup {dst} |-> IF q = dst THEN @[src] ELSE @[q]]]

\* shutil.move(src, dst) onto a free name
CanMove(f, src, dst) == Exists(f, src) /\ ~Exists(f, dst) /\ DirExists(f, dst.d)
move(f, src, dst) ==
    IF src = dst \/ ~Exists(f, src) THEN f
    ELSE [f EXCEPT !.ent =
            [q \in ((DOMAIN @) \ {src}) \cup {dst} |-> IF q = dst THEN @[src] ELSE @[q]]]

\* shutil.copy2(src, dst): dst is created or overwritten, src stays
CanCopy(f, src, dst) == Exists(f, src) /\ src # dst /\ DirExists(f, dst.d)
copy2(f, src, dst) ==
    IF ~Exists(f, src) THEN f
    ELSE [f EXCEPT !.ent =
            [q \in (DOMAIN @) \cup {dst} |-> IF q = dst THEN @[src] ELSE @[q]]]

----------------------------------------------------------------------------
(* Execution of one call: st.status is "run" while the body executes,      *)
(* "raised" once a statement raised, "true"/"false" once it returned.      *)
(* st.trace records, in order, every log_callback call, every prompt and   *)
(* every file operation that completed.                                    *)

Ev(k, what, item) == [k |-> k, what |-> what, item |-> item]

NoSite == <<"none", "">>

Start(f) ==
    [status |-> "run", fs |-> f, trace |-> <<>>, hit |-> NoSite, why |-> "none",
     refused |-> FALSE]

Running(st) == st.status = "run"

Log(st, what, item) ==
    IF Running(st) THEN [st EXCEPT !.trace = Append(@, Ev("log", what, item))] ELSE st

\* return False after a failed same-directory test
ReturnSameDir(st) ==
    IF Running(st) THEN [st EXCEPT !.status = "false", !.why = "same_dir"] ELSE st

ReturnTrue(st) == IF Running(st) THEN [st EXCEPT !.status = "true"] ELSE st

\* raise FileNotFoundError(...)
RaiseNotFound(st) ==
    IF Running(st) THEN [st EXCEPT !.status = "raised", !.why = "not_found"] ELSE st

\* (mutant) a refused file operation is skipped and the call goes on
FsOp_goes_on(st, fail, what, item, ok, newfs) ==
    IF st.status # "run" THEN st
    ELSE IF fail = <<what, item>> \/ ~ok
         THEN [st EXCEPT !.hit = <<what, item>>, !.why = "os_error",
                         !.refused = (fail = <<what, item>>)]
         ELSE [st EXCEPT !.fs = newfs, !.trace = Append(@, Ev("op", what, item))]

\* A file operation at site <<what, item>>: it raises when the operating
\* system refuses it (fail names this site: permissions, a lock, a full
\* disk) or when it cannot apply to the file system as it is.
FsOp(st, fail, what, item, ok, newfs) ==
    IF ~Running(st) THEN st
    ELSE IF fail = <<what, item>> \/ ~ok
         THEN [st EXCEPT !.status = "raised", !.hit = <<what, item>>, !.why = "os_error",
                         !.refused = (fail = <<what, item>>)]
         ELSE [st EXCEPT !.fs = newfs, !.trace = Append(@, Ev("op", what, item))]

\* except Exception as e: log_callback(f"Error: {str(e)}"); return False
Except(st) ==
    IF st.status = "raised"
    THEN [st EXCEPT !.status = "false", !.trace = Append(@, Ev("log", "error", ""))]
    ELSE st

\* if os.path.exists(dst): warn, delete it; then log and shutil.move(src, dst)
\* (logic.py:137-143, 146-152, 257-263, 266-272)
MoveFolder(st, fail, item, src, dst) ==
    LET a == IF Running(st) /\ Exists(st.fs, dst)
             THEN FsOp(Log(st, "overwrite", item), fail, "rmtree", item,
                       Exists(st.fs, dst), rmtree(st.fs, dst))
             ELSE st
        b == Log(a, "moving", item)
    IN  FsOp(b, fail, "move", item, CanMove(b.fs, src, dst), move(b.fs, src, dst))

----------------------------------------------------------------------------
(* move_files_logic (logic.py:77-194).  a holds the arguments; prompt is   *)
(* what prompt_callback does; fail is the file operation the operating     *)
(* system refuses during this call (NoSite: none).                         *)

XmlSrc(a) == P(a.xml_source_dir, XML_FILENAME)

\* logic.py:169-174
LabeledDest(a, prompt) ==
    P(a.destination_dir, LabeledName(XML_FILENAME, LabelOf(prompt)))

\* logic.py:95-112
SanitizeCheckXml(st, a) ==
    IF ~a.include_xml THEN st
    ELSE IF a.xml_source_dir = a.destination_dir
         THEN ReturnSameDir(Log(st, "same_dir", "xml"))
    ELSE IF ~DirExists(st.fs, a.xml_source_dir) THEN RaiseNotFound(st)
    ELSE IF ~Exists(st.fs, XmlSrc(a)) THEN RaiseNotFound(st)
    ELSE IF ~Exists(st.fs, a.replacement_xml_path) THEN RaiseNotFound(st)
    ELSE st

\* (mutant) plugins is not looked for before the moves start
SanitizeCheckFolders_mods_only(st, a) ==
    IF ~Running(st) THEN st
    ELSE IF (a.include_mods \/ a.include_plugins) /\ a.source_dir = a.destination_dir
         THEN ReturnSameDir(Log(st, "same_dir", "folders"))
    ELSE IF (a.include_mods \/ a.include_plugins) /\ ~DirExists(st.fs, a.source_dir)
         THEN RaiseNotFound(st)
    ELSE IF a.include_mods /\ ~Exists(st.fs, P(a.source_dir, FOLDER1_NAME))
         THEN RaiseNotFound(st)
    ELSE st

\* logic.py:114-129
SanitizeCheckFolders(st, a) ==
    IF ~Running(st) THEN st
    ELSE IF (a.include_mods \/ a.include_plugins) /\ a.source_dir = a.destination_dir
         THEN ReturnSameDir(Log(st, "same_dir", "folders"))
    ELSE IF (a.include_mods \/ a.include_plugins) /\ ~DirExists(st.fs, a.source_dir)
         THEN RaiseNotFound(st)
    ELSE IF a.include_mods /\ ~Exists(st.fs, P(a.source_dir, FOLDER1_NAME))
         THEN RaiseNotFound(st)
    ELSE IF a.include_plugins /\ ~Exists(st.fs, P(a.source_dir, FOLDER2_NAME))
         THEN RaiseNotFound(st)
    ELSE st

\* logic.py:131-134
SanitizeMakeDest(st, a, fail) ==
    IF Running(st) /\ ~DirExists(st.fs, a.destination_dir)
    THEN FsOp(Log(st, "creating", "dest"), fail, "makedirs", "dest",
              TRUE, makedirs(st.fs, a.destination_dir))
    ELSE st

\* logic.py:155-187
SanitizeXml(st, a, prompt, fail) ==
    IF ~Running(st) \/ ~a.include_xml THEN st
    ELSE
    LET asked == IF prompt.cb
                 THEN [st EXCEPT !.trace = Append(@, Ev("prompt", "label", "xml"))]
                 ELSE st
        dst == LabeledDest(a, prompt)
        del == IF Exists(asked.fs, dst)
               THEN FsOp(Log(asked, "overwrite", "xml"), fail, "remove", "xml",
                         TRUE, rmtree(asked.fs, dst))
               ELSE asked
        mv == Log(del, "moving", "xml")
        moved == FsOp(mv, fail, "move", "xml",
                      CanMove(mv.fs, XmlSrc(a), dst), move(mv.fs, XmlSrc(a), dst))
        cp == Log(moved, "copying", "xml")
    IN  FsOp(cp, fail, "copy", "xml",
             CanCopy(cp.fs, a.replacement_xml_path, XmlSrc(a)),
             copy2(cp.fs, a.replacement_xml_path, XmlSrc(a)))

\* logic.py:136-143
SanitizeMods(st, a, fail) ==
    IF Running(st) /\ a.include_mods
    THEN MoveFolder(st, fail, "mods", P(a.source_dir, FOLDER1_NAME),
                    P(a.destination_dir, FOLDER1_NAME))
    ELSE st

\* (mutant) the plugins step looks at the flag of mods
SanitizePlugins_by_mods_flag(st, a, fail) ==
    IF Running(st) /\ a.include_mods
    THEN MoveFolder(st, fail, "plugins", P(a.source_dir, FOLDER2_NAME),
                    P(a.destination_dir, FOLDER2_NAME))
    ELSE st

\* logic.py:145-152
SanitizePlugins(st, a, fail) ==
    IF Running(st) /\ a.include_plugins
    THEN MoveFolder(st, fail, "plugins", P(a.source_dir, FOLDER2_NAME),
                    P(a.destination_dir, FOLDER2_NAME))
    ELSE st

\* (mutant) plugins is moved before mods
move_files_logic_plugins_first(f, a, prompt, fail) ==
    LET c1 == SanitizeCheckXml(Start(f), a)
        c2 == SanitizeCheckFolders(c1, a)
        d == SanitizeMakeDest(c2, a, fail)
        p == SanitizePlugins(d, a, fail)
        m == SanitizeMods(p, a, fail)
        x == SanitizeXml(m, a, prompt, fail)
    IN  Except(ReturnTrue(Log(x, "completed", "")))

move_files_logic(f, a, prompt, fail) ==
    LET c1 == SanitizeCheckXml(Start(f), a)
        c2 == SanitizeCheckFolders(c1, a)
        d == SanitizeMakeDest(c2, a, fail)
        m == SanitizeMods(d, a, fail)
        p == SanitizePlugins(m, a, fail)
        x == SanitizeXml(p, a, prompt, fail)
    IN  Except(ReturnTrue(Log(x, "completed", "")))

----------------------------------------------------------------------------
(* revert_files_logic (logic.py:197-288).  a.restore_xml_path is NoPath    *)
(* when the caller passes None.                                            *)

\* logic.py:220-224
XmlInDest(a) ==
    IF a.restore_xml_path # NoPath THEN a.restore_xml_path
    ELSE P(a.destination_dir, XML_FILENAME)

\* logic.py:216-232
RestoreCheckXml(st, a, fail) ==
    IF ~a.include_xml THEN st
    ELSE IF a.xml_source_dir = a.destination_dir THEN ReturnSameDir(st)
    ELSE IF ~Exists(st.fs, XmlInDest(a)) THEN RaiseNotFound(st)
    ELSE IF ~DirExists(st.fs, a.xml_source_dir)
         THEN FsOp(st, fail, "makedirs", "xml_dir", TRUE, makedirs(st.fs, a.xml_source_dir))
    ELSE st

\* logic.py:234-250
RestoreCheckFolders(st, a) ==
    IF ~Running(st) THEN st
    ELSE IF a.source_dir = a.destination_dir THEN ReturnSameDir(st)
    ELSE IF ~DirExists(st.fs, a.destination_dir) THEN RaiseNotFound(st)
    ELSE IF a.include_mods /\ ~Exists(st.fs, P(a.destination_dir, FOLDER1_NAME))
         THEN RaiseNotFound(st)
    ELSE IF a.include_plugins /\ ~Exists(st.fs, P(a.destination_dir, FOLDER2_NAME))
         THEN RaiseNotFound(st)
    ELSE st

\* logic.py:252-254
RestoreMakeSource(st, a, fail) ==
    IF Running(st) /\ (a.include_mods \/ a.include_plugins)
       /\ ~DirExists(st.fs, a.source_dir)
    THEN FsOp(st, fail, "makedirs", "source", TRUE, makedirs(st.fs, a.source_dir))
    ELSE st

\* logic.py:275-281
RestoreXml(st, a, fail) ==
    IF ~Running(st) \/ ~a.include_xml THEN st
    ELSE
    LET del == IF Exists(st.fs, XmlSrc(a))
               THEN FsOp(Log(st, "overwrite", "xml"), fail, "remove", "xml",
                         TRUE, rmtree(st.fs, XmlSrc(a)))
               ELSE st
        mv == Log(del, "moving", "xml")
    IN  FsOp(mv, fail, "move", "xml",
             CanMove(mv.fs, XmlInDest(a), XmlSrc(a)), move(mv.fs, XmlInDest(a), XmlSrc(a)))

\* logic.py:256-263
RestoreMods(st, a, fail) ==
    IF Running(st) /\ a.include_mods
    THEN MoveFolder(st, fail, "mods", P(a.destination_dir, FOLDER1_NAME),
                    P(a.source_dir, FOLDER1_NAME))
    ELSE st

\* (mutant) plugins is moved in the direction of Sanitize
RestorePlugins_forward(st, a, fail) ==
    IF Running(st) /\ a.include_plugins
    THEN MoveFolder(st, fail, "plugins", P(a.source_dir, FOLDER2_NAME),
                    P(a.destination_dir, FOLDER2_NAME))
    ELSE st

\* logic.py:265-272
RestorePlugins(st, a, fail) ==
    IF Running(st) /\ a.include_plugins
    THEN MoveFolder(st, fail, "plugins", P(a.destination_dir, FOLDER2_NAME),
                    P(a.source_dir, FOLDER2_NAME))
    ELSE st

revert_files_logic(f, a, fail) ==
    LET c1 == RestoreCheckXml(Start(f), a, fail)
        c2 == RestoreCheckFolders(c1, a)
        d == RestoreMakeSource(c2, a, fail)
        m == RestoreMods(d, a, fail)
        p == RestorePlugins(m, a, fail)
        x == RestoreXml(p, a, fail)
    IN  Except(ReturnTrue(Log(x, "completed", "")))

----------------------------------------------------------------------------
(* The state file (logic.py:11-36).  A file is missing, cannot be opened,  *)
(* holds bytes that are not UTF-8, holds text that is not JSON, or holds a *)
(* JSON value: a key/value map (map = TRUE, kv its content) or something   *)
(* else (a list, a number, a string, null).                                *)

NoMap == [k \in {} |-> 0]

\* PROFILES_DIR before ensure_profiles_dir has created it
NoProfiles == [dir |-> FALSE, files |-> NoMap]

Missing == [kind |-> "missing", map |-> FALSE, kv |-> NoMap]
Json(kv) == [kind |-> "json", map |-> TRUE, kv |-> kv]
NotAMap == [kind |-> "json", map |-> FALSE, kv |-> NoMap]
Unreadable(k) == [kind |-> k, map |-> FALSE, kv |-> NoMap]

\* load_state: [raised, map, kv].  IOError and JSONDecodeError give {};
\* a UnicodeDecodeError is neither and leaves the function.
load_state(sf) ==
    IF sf.kind = "missing" THEN [raised |-> FALSE, map |-> TRUE, kv |-> NoMap]
    ELSE IF sf.kind \in {"denied", "bad_json"}
         THEN [raised |-> FALSE, map |-> TRUE, kv |-> NoMap]
    ELSE IF sf.kind = "bad_utf8" THEN [raised |-> TRUE, map |-> FALSE, kv |-> NoMap]
    ELSE [raised |-> FALSE, map |-> sf.map, kv |-> sf.kv]

\* save_state(data): wr is what the operating system does with the write:
\* "ok", "refused" (the file cannot be created or opened: it stays as it
\* was) or "torn" (the file was opened for writing, hence truncated, and the
\* write failed).  The IOError is swallowed.
WriteOutcomes == {"ok", "refused", "torn"}

save_state(sf, kv, wr) ==
    IF wr = "ok" THEN Json(kv)
    ELSE IF wr = "torn" THEN Unreadable("bad_json")
    ELSE sf

\* (mutant) the key is set only when the map does not have it yet
SetKey_if_absent(kv, k, v) ==
    [x \in (DOMAIN kv) \cup {k} |-> IF x \in DOMAIN kv THEN kv[x] ELSE v]

\* state['last_cache_clear'] = now_str
SetKey(kv, k, v) == [x \in (DOMAIN kv) \cup {k} |-> IF x = k THEN v ELSE kv[x]]

----------------------------------------------------------------------------
(* clear_cache_logic (logic.py:39-74) *)

targets == <<"cache", "server-cache", "server-cache-priv">>

TicksPerSecond == 2

\* datetime.now().strftime("%Y-%m-%d %H:%M:%S"): the whole second the clock is in
strftime(t) == t \div TicksPerSecond

NoTs == 0 - 1

\* logic.py:52-61, the loop body for targets[i]; rmfail are the targets
\* whose shutil.rmtree raises OSError
RECURSIVE Sweep(_, _, _)
Sweep(st, i, rmfail) ==
    IF i > Len(targets) THEN st
    ELSE LET t == targets[i] IN
         IF t \in st.cache.present
         THEN IF t \in rmfail
              THEN Sweep([st EXCEPT !.trace = @ \o <<Ev("log", "deleting", t),
                                                     Ev("log", "failed", t)>>],
                         i + 1, rmfail)
              ELSE Sweep([st EXCEPT !.trace = @ \o <<Ev("log", "deleting", t),
                                                     Ev("op", "rmtree", t)>>,
                                    !.cache.present = @ \ {t}],
                         i + 1, rmfail)
         ELSE Sweep([st EXCEPT !.trace = Append(@, Ev("log", "not_found", t))],
                    i + 1, rmfail)

\* (mutant) the data directory is taken to exist
data_dir_assumed(c) == TRUE

\* logic.py:45-46: os.path.exists(data_dir)
data_dir_exists(c) == c.data

clear_cache_logic(c, sf, now, rmfail, wr) ==
    LET st0 == [ret |-> FALSE, ts |-> NoTs, cache |-> c, state_file |-> sf, trace |-> <<>>]
    IN
    IF ~data_dir_exists(c)
    THEN [st0 EXCEPT !.trace = <<Ev("log", "error", "data")>>]
    ELSE
    LET swept == Sweep(st0, 1, rmfail)
        now_str == strftime(now)
        state == load_state(sf)
    IN  IF state.raised \/ ~state.map
        THEN \* load_state raised, or the item assignment raised TypeError
             [swept EXCEPT !.trace = Append(@, Ev("log", "error", ""))]
        ELSE [swept EXCEPT
                !.state_file = save_state(sf, SetKey(state.kv, "last_cache_clear", now_str), wr),
                !.trace = Append(@, Ev("log", "finished", "")),
                !.ret = TRUE,
                !.ts = now_str]

----------------------------------------------------------------------------
(* The callers' inputs *)

Flags == [include_mods : BOOLEAN, include_plugins : BOOLEAN]

\* (source_dir, destination_dir, xml_source_dir): one triple for each way
\* the three directories can coincide
DirTriples ==
    {<<"S", "D", "X">>, <<"S", "D", "S">>, <<"S", "D", "D">>,
     <<"S", "S", "X">>, <<"S", "S", "S">>}

Args(t, fl, xml, repl, back) ==
    [source_dir |-> t[1], destination_dir |-> t[2], xml_source_dir |-> t[3],
     include_mods |-> fl.include_mods, include_plugins |-> fl.include_plugins,
     include_xml |-> xml, replacement_xml_path |-> repl, restore_xml_path |-> back]

\* Replacement files the user can pick: a template of its own, the settings
\* file itself, a backup kept in the destination directory.
Replacements(t) ==
    {P("X", TemplateName), P(t[3], XML_FILENAME),
     P(t[2], LabeledName(XML_FILENAME, BackupLabel))}

Prompts == {NoCallback, Cancelled, Typed(<<"a">>), Typed(<<"!">>)}

\* Backup files the user can pick for a restore: none (None), a labeled
\* backup in the destination directory, the settings file itself.
Backups(t) ==
    {NoPath, P(t[3], XML_FILENAME)}
    \cup {P(t[2], LabeledName(XML_FILENAME, LabelOf(pr))) : pr \in Prompts}

SanitizeArgs ==
    {Args(t, fl, FALSE, NoPath, NoPath) :
        t \in {tt \in DirTriples : tt[3] = "X"}, fl \in Flags}
    \cup UNION {{Args(t, fl, TRUE, r, NoPath) : fl \in Flags, r \in Replacements(t)} :
                    t \in DirTriples}

RestoreArgs ==
    {Args(t, fl, FALSE, NoPath, NoPath) :
        t \in {tt \in DirTriples : tt[3] = "X"}, fl \in Flags}
    \cup UNION {{Args(t, fl, TRUE, NoPath, b) : fl \in Flags, b \in Backups(t)} :
                    t \in DirTriples}

\* The file operations of move_files_logic and of revert_files_logic
SanitizeSites ==
    {<<"makedirs", "dest">>, <<"rmtree", "mods">>, <<"move", "mods">>,
     <<"rmtree", "plugins">>, <<"move", "plugins">>,
     <<"remove", "xml">>, <<"move", "xml">>, <<"copy", "xml">>}

RestoreSites ==
    {<<"makedirs", "xml_dir">>, <<"makedirs", "source">>, <<"rmtree", "mods">>,
     <<"move", "mods">>, <<"rmtree", "plugins">>, <<"move", "plugins">>,
     <<"remove", "xml">>, <<"move", "xml">>}

----------------------------------------------------------------------------
(* Initial file systems *)

Ent(ps) == [p \in {q[1] : q \in ps} |-> (CHOOSE q \in ps : q[1] = p)[2]]

FolderLayouts ==
    {Ent(src \cup dst) :
        src \in SUBSET {<<P("S", FOLDER1_NAME), "mods1">>, <<P("S", FOLDER2_NAME), "plugins1">>},
        dst \in SUBSET {<<P("D", FOLDER1_NAME), "mods0">>, <<P("D", FOLDER2_NAME), "plugins0">>}}

\* The settings file (in both directories a caller may name as its home), a
\* replacement template, and an earlier backup under the default label.
FileLayouts ==
    {Ent(x \cup y) :
        x \in {{}, {<<P("X", XML_FILENAME), "settingsX">>, <<P("S", XML_FILENAME), "settingsS">>}},
        y \in SUBSET {<<P("X", TemplateName), "template">>,
                      <<P("D", LabeledName(XML_FILENAME, BackupLabel)), "old">>}}

Merge(e1, e2) ==
    [p \in (DOMAIN e1) \cup (DOMAIN e2) |-> IF p \in DOMAIN e1 THEN e1[p] ELSE e2[p]]

InitFs ==
    {[dirs |-> ds, ent |-> Merge(e1, e2)] :
        ds \in SUBSET Dirs, e1 \in FolderLayouts, e2 \in FileLayouts}

\* every entry lies in a directory that exists
WellFormed(f) == \A p \in DOMAIN f.ent : p.d \in f.dirs

NoCall ==
    [op |-> "none", a |-> Args(<<"S", "D", "X">>, [include_mods |-> FALSE,
        include_plugins |-> FALSE], FALSE, NoPath, NoPath),
     prompt |-> NoCallback, ret |-> FALSE, trace |-> <<>>, hit |-> NoSite,
     why |-> "none", refused |-> FALSE, pre |-> [dirs |-> {}, ent |-> <<>>]]

Call(op, a, prompt, f, st) ==
    [op |-> op, a |-> a, prompt |-> prompt, ret |-> (st.status = "true"),
     trace |-> st.trace, hit |-> st.hit, why |-> st.why, refused |-> st.refused,
     pre |-> f]

Init ==
    /\ fs \in {f \in InitFs : WellFormed(f)}
    /\ pc = "idle"
    /\ last = NoCall
    /\ prev = NoCall
    /\ cache = [data |-> FALSE, present |-> {}]
    /\ state_file = Missing
    /\ clock = 0
    /\ user_label = NoCallback
    /\ label = <<>>
    /\ settings_file = Missing
    /\ profiles_index = Missing
    /\ profile_files = NoProfiles

\* The file operations a call with arguments a can reach
SitesOf(sites, a) ==
    {x \in sites :
        /\ x[2] = "mods" => a.include_mods
        /\ x[2] = "plugins" => a.include_plugins
        /\ x[2] \in {"xml", "xml_dir"} => a.include_xml
        /\ x[2] = "source" => (a.include_mods \/ a.include_plugins)}
    \cup {NoSite}

\* A second call is made right after a Sanitize that succeeded, with the
\* form unchanged: the same directories, flags and replacement file.
Again == pc = "returned" /\ prev = NoCall /\ last.op = "sanitize" /\ last.ret

\* gui.run_forward: one call of move_files_logic
Sanitize ==
    /\ \E a \in (IF pc = "idle" THEN SanitizeArgs
                 ELSE IF Again THEN {last.a} ELSE {}) :
           \E fail \in SitesOf(SanitizeSites, a) :
           \E prompt \in (IF a.include_xml THEN Prompts ELSE {NoCallback}) :
              LET st == move_files_logic(fs, a, prompt, fail) IN
              /\ fs' = st.fs
              /\ last' = Call("sanitize", a, prompt, fs, st)
    /\ prev' = last
    /\ pc' = "returned"
    /\ UNCHANGED <<cache, state_file, clock, user_label, label,
                 settings_file, profiles_index, profile_files>>

\* The restore of what the last Sanitize moved: the same directories and
\* flags, and the backup file that Sanitize wrote as restore_xml_path.
RestoreOf(c) ==
    [c.a EXCEPT !.replacement_xml_path = NoPath,
                !.restore_xml_path =
                    IF c.a.include_xml THEN LabeledDest(c.a, c.prompt) ELSE NoPath]

\* gui.run_revert: one call of revert_files_logic
Restore ==
    /\ \E a \in (IF pc = "idle" THEN RestoreArgs
                 ELSE IF Again THEN {RestoreOf(last)} ELSE {}) :
           \E fail \in SitesOf(RestoreSites, a) :
              LET st == revert_files_logic(fs, a, fail) IN
              /\ fs' = st.fs
              /\ last' = Call("restore", a, NoCallback, fs, st)
    /\ prev' = last
    /\ pc' = "returned"
    /\ UNCHANGED <<cache, state_file, clock, user_label, label,
                 settings_file, profiles_index, profile_files>>

Next == Sanitize \/ Restore

Spec == Init /\ [][Next]_vars

----------------------------------------------------------------------------
(* The cache sweep and the state file *)

MaxClock == 3

CacheDirs ==
    {[data |-> FALSE, present |-> {}]}
    \cup {[data |-> TRUE, present |-> ps] : ps \in SUBSET {targets[i] : i \in 1..Len(targets)}}

StateFiles ==
    {Missing, NotAMap, Unreadable("denied"), Unreadable("bad_json"), Unreadable("bad_utf8"),
     Json(NoMap), Json(SetKey(NoMap, "other", 7)),
     Json(SetKey(NoMap, "last_cache_clear", 0))}

CacheCall(c, sf, wr, st) ==
    [op |-> "clear_cache", ret |-> st.ret, ts |-> st.ts, trace |-> st.trace,
     pre |-> c, pre_state |-> sf, wr |-> wr]

CacheInit ==
    /\ fs = [dirs |-> {}, ent |-> NoMap]
    /\ pc = "idle"
    /\ last = NoCall
    /\ prev = NoCall
    /\ cache \in CacheDirs
    /\ state_file \in StateFiles
    /\ clock = 0
    /\ user_label = NoCallback
    /\ label = <<>>
    /\ settings_file = Missing
    /\ profiles_index = Missing
    /\ profile_files = NoProfiles

\* gui.run_clear_cache: one call of clear_cache_logic
ClearCache ==
    /\ \E rmfail \in SUBSET cache.present, wr \in WriteOutcomes :
        LET st == clear_cache_logic(cache, state_file, clock, rmfail, wr) IN
        /\ cache' = st.cache
        /\ state_file' = st.state_file
        /\ last' = CacheCall(cache, state_file, wr, st)
    /\ UNCHANGED <<fs, pc, prev, clock, user_label, label,
                 settings_file, profiles_index, profile_files>>

\* time passes
Tick ==
    /\ clock < MaxClock
    /\ clock' = clock + 1
    /\ UNCHANGED <<fs, pc, last, prev, cache, state_file, user_label, label,
                 settings_file, profiles_index, profile_files>>

CacheNext == ClearCache \/ Tick

CacheSpec == CacheInit /\ [][CacheNext]_vars

----------------------------------------------------------------------------
(* The label on its own: every prompt result up to MaxLabelLen characters  *)

MaxLabelLen == 3

RECURSIVE Strings(_)
Strings(n) ==
    IF n = 0 THEN {<<>>}
    ELSE LET shorter == Strings(n - 1) IN
         shorter \cup {Append(s, c) : s \in {x \in shorter : Len(x) = n - 1}, c \in Chars}

LabelInit ==
    /\ fs = [dirs |-> {}, ent |-> NoMap]
    /\ pc = "prompt"
    /\ last = NoCall
    /\ prev = NoCall
    /\ cache = [data |-> FALSE, present |-> {}]
    /\ state_file = Missing
    /\ clock = 0
    /\ user_label \in {NoCallback, Cancelled} \cup {Typed(s) : s \in Strings(MaxLabelLen)}
    /\ label = <<>>
    /\ settings_file = Missing
    /\ profiles_index = Missing
    /\ profile_files = NoProfiles

\* logic.py:157-167
AskLabel ==
    /\ pc = "prompt"
    /\ label' = LabelOf(user_label)
    /\ pc' = "labelled"
    /\ UNCHANGED <<fs, last, prev, cache, state_file, clock, user_label,
                 settings_file, profiles_index, profile_files>>

LabelNext == AskLabel

LabelSpec == LabelInit /\ [][LabelNext]_vars

----------------------------------------------------------------------------
(* The auto-clear scheduler (cache_scheduler.py)                           *)

\* a day of the model's clock, in seconds
SecondsPerDay == 2

TicksPerDay == SecondsPerDay * TicksPerSecond

\* how long the scheduler is watched, in days
MaxDays == 2

\* "auto_clear_days": 7
DEFAULT_DAYS == 7

\* a last_auto_clear text that "%Y-%m-%d %H:%M:%S" does not match
Garbage == 0 - 2

Settings(e, s, d, l) ==
    [auto_clear_enabled |-> e, auto_clear_on_startup |-> s,
     auto_clear_days |-> d, last_auto_clear |-> l]

\* cache_scheduler.py:25-30
DefaultSettings == Settings(FALSE, FALSE, DEFAULT_DAYS, NoTs)

\* dict.get(k, default)
Get(kv, k, default) == IF k \in DOMAIN kv THEN kv[k] ELSE default

\* load_cache_settings: [raised, map, kv].  A missing file, IOError and
\* JSONDecodeError give the default settings; a UnicodeDecodeError leaves
\* the function; any JSON value is returned as it is.
load_cache_settings(sf) ==
    IF sf.kind \in {"missing", "denied", "bad_json"}
    THEN [raised |-> FALSE, map |-> TRUE, kv |-> DefaultSettings]
    ELSE IF sf.kind = "bad_utf8" THEN [raised |-> TRUE, map |-> FALSE, kv |-> NoMap]
    ELSE [raised |-> FALSE, map |-> sf.map, kv |-> sf.kv]

\* save_cache_settings: the IOError of a refused or torn write is swallowed
save_cache_settings(sf, kv, wr) ==
    IF wr = "ok" THEN Json(kv)
    ELSE IF wr = "torn" THEN Unreadable("bad_json")
    ELSE sf

\* datetime.strptime(last_clear, "%Y-%m-%d %H:%M:%S"), on the clock
Parses(last_clear) == last_clear >= 0
strptime(last_clear) == last_clear * TicksPerSecond

\* (mutant) a clear on the last day of the interval already counts
days_round_up(now, last_clear) ==
    (now - strptime(last_clear) + TicksPerDay - 1) \div TicksPerDay

\* (datetime.now() - last_clear_date).days
days_since(now, last_clear) == (now - strptime(last_clear)) \div TicksPerDay

\* (mutant) the interval has to be exceeded, not reached
should_auto_clear_strict(sf, now) ==
    LET settings == load_cache_settings(sf) IN
    IF settings.raised \/ ~settings.map THEN [raised |-> TRUE, val |-> FALSE]
    ELSE IF ~Get(settings.kv, "auto_clear_enabled", FALSE)
         THEN [raised |-> FALSE, val |-> FALSE]
    ELSE LET last_clear == Get(settings.kv, "last_auto_clear", NoTs) IN
         IF last_clear = NoTs THEN [raised |-> FALSE, val |-> TRUE]
         ELSE IF ~Parses(last_clear) THEN [raised |-> FALSE, val |-> TRUE]
         ELSE LET clear_interval == Get(settings.kv, "auto_clear_days", DEFAULT_DAYS) IN
              [raised |-> FALSE, val |-> days_since(now, last_clear) > clear_interval]

\* should_auto_clear: [raised, val]; settings.get on a JSON value that is
\* not an object raises AttributeError
should_auto_clear(sf, now) ==
    LET settings == load_cache_settings(sf) IN
    IF settings.raised \/ ~settings.map THEN [raised |-> TRUE, val |-> FALSE]
    ELSE IF ~Get(settings.kv, "auto_clear_enabled", FALSE)
         THEN [raised |-> FALSE, val |-> FALSE]
    ELSE LET last_clear == Get(settings.kv, "last_auto_clear", NoTs) IN
         IF last_clear = NoTs THEN [raised |-> FALSE, val |-> TRUE]
         ELSE IF ~Parses(last_clear) THEN [raised |-> FALSE, val |-> TRUE]
         ELSE LET clear_interval == Get(settings.kv, "auto_clear_days", DEFAULT_DAYS) IN
              [raised |-> FALSE, val |-> days_since(now, last_clear) >= clear_interval]

\* (mutant) the timestamp is written whatever clear_cache_logic returned
ClearAndRecord_unchecked(sf, kv, c, stf, now, rmfail, wr, swr) ==
    LET r == clear_cache_logic(c, stf, now, rmfail, wr) IN
    [raised |-> FALSE, ret |-> r.ret, invoked |-> TRUE, ts |-> r.ts,
     cache |-> r.cache, state_file |-> r.state_file,
     settings_file |-> save_cache_settings(sf, SetKey(kv, "last_auto_clear", r.ts), swr)]

\* cache_scheduler.py:86-91 and 97-101: clear, and on success write the
\* timestamp into the settings loaded at line 81
ClearAndRecord(sf, kv, c, stf, now, rmfail, wr, swr) ==
    LET r == clear_cache_logic(c, stf, now, rmfail, wr) IN
    [raised |-> FALSE, ret |-> r.ret, invoked |-> TRUE, ts |-> r.ts,
     cache |-> r.cache, state_file |-> r.state_file,
     settings_file |-> IF r.ret
                       THEN save_cache_settings(sf, SetKey(kv, "last_auto_clear", r.ts), swr)
                       ELSE sf]

\* check_and_auto_clear(source_dir): nothing in it catches what
\* load_cache_settings or settings.get raise
check_and_auto_clear(sf, c, stf, now, rmfail, wr, swr) ==
    LET settings == load_cache_settings(sf)
        idle == [raised |-> FALSE, ret |-> FALSE, invoked |-> FALSE, ts |-> NoTs,
                 cache |-> c, state_file |-> stf, settings_file |-> sf]
    IN
    IF settings.raised \/ ~settings.map THEN [idle EXCEPT !.raised = TRUE]
    ELSE IF Get(settings.kv, "auto_clear_on_startup", FALSE)
         THEN ClearAndRecord(sf, settings.kv, c, stf, now, rmfail, wr, swr)
    ELSE IF should_auto_clear(sf, now).val
         THEN ClearAndRecord(sf, settings.kv, c, stf, now, rmfail, wr, swr)
    ELSE idle

Max(a, b) == IF a >= b THEN a ELSE b

\* (mutant) the settings are built anew from the three arguments
update_cache_settings_anew(sf, auto_clear_enabled, auto_clear_on_startup, auto_clear_days, swr) ==
    LET settings == load_cache_settings(sf) IN
    IF settings.raised \/ ~settings.map THEN [raised |-> TRUE, settings_file |-> sf]
    ELSE [raised |-> FALSE,
          settings_file |->
            save_cache_settings(sf,
                Settings(auto_clear_enabled, auto_clear_on_startup,
                         Max(1, auto_clear_days), NoTs),
                swr)]

\* update_cache_settings: [raised, settings_file]; item assignment on a
\* JSON value that is not an object raises TypeError
update_cache_settings(sf, auto_clear_enabled, auto_clear_on_startup, auto_clear_days, swr) ==
    LET settings == load_cache_settings(sf) IN
    IF settings.raised \/ ~settings.map THEN [raised |-> TRUE, settings_file |-> sf]
    ELSE [raised |-> FALSE,
          settings_file |->
            save_cache_settings(sf,
                SetKey(SetKey(SetKey(settings.kv,
                    "auto_clear_enabled", auto_clear_enabled),
                    "auto_clear_on_startup", auto_clear_on_startup),
                    "auto_clear_days", Max(1, auto_clear_days)),
                swr)]

\* what cache_settings.json may hold when the application starts: nothing,
\* what the application wrote, and what an edit by hand left there
SettingsFiles ==
    {Missing, NotAMap, Unreadable("bad_json"), Unreadable("bad_utf8"), Json(NoMap),
     Json([auto_clear_enabled |-> TRUE, last_auto_clear |-> 0])}
    \cup {Json(Settings(e, s, d, l)) :
            e \in BOOLEAN, s \in BOOLEAN, d \in {1, 2}, l \in {NoTs, Garbage, 0}}
    \cup {Json(Settings(TRUE, FALSE, 0, NoTs)), Json(Settings(FALSE, TRUE, 0, 0))}

\* the days the spinbox of the settings frame may hold
SpinboxDays == {0, 1, 2}

\* wr, swr: what the operating system did with the write of the state file
\* and with the write of the settings file, when the call came to them
SchedCall(sf, now, wr, swr, r) ==
    [op |-> "auto_clear", raised |-> r.raised, ret |-> r.ret, invoked |-> r.invoked,
     ts |-> r.ts, now |-> now, wr |-> IF r.ret THEN wr ELSE "ok", swr |-> swr,
     pre |-> sf]

UpdateCall(swr, r) ==
    [op |-> "update_settings", raised |-> r.raised, ret |-> FALSE, swr |-> swr]

SchedInit ==
    /\ fs = [dirs |-> {}, ent |-> NoMap]
    /\ pc = "idle"
    /\ last = NoCall
    /\ prev = NoCall
    /\ cache \in {[data |-> FALSE, present |-> {}], [data |-> TRUE, present |-> {"cache"}]}
    /\ state_file = Missing
    /\ clock = 0
    /\ user_label = NoCallback
    /\ label = <<>>
    /\ settings_file \in SettingsFiles
    /\ profiles_index = Missing
    /\ profile_files = NoProfiles

\* the application is started again after a start that cleared the cache
Restarted == pc = "started" /\ last.ret

\* main.check_auto_clear: the application starts
Startup ==
    /\ pc \in {"idle", "running"} \/ Restarted
    /\ pc' = IF pc = "idle" THEN "started"
             ELSE IF pc = "running" THEN "running" ELSE "restarted"
    /\ \E rmfail \in SUBSET cache.present, wr \in {"ok", "refused"}, swr \in WriteOutcomes :
        LET r == check_and_auto_clear(settings_file, cache, state_file, clock,
                                      rmfail, wr, swr) IN
        /\ cache' = r.cache
        /\ state_file' = r.state_file
        /\ settings_file' = r.settings_file
        /\ last' = SchedCall(settings_file, clock, wr, swr, r)
    /\ UNCHANGED <<fs, prev, clock, user_label, label, profiles_index, profile_files>>

\* gui.save_cache_settings: "Save Auto-Clear Settings"
SaveCacheSettings ==
    /\ pc \in {"idle", "running"}
    /\ \E e \in BOOLEAN, s \in BOOLEAN, d \in SpinboxDays, swr \in WriteOutcomes :
        LET r == update_cache_settings(settings_file, e, s, d, swr) IN
        /\ settings_file' = r.settings_file
        /\ last' = UpdateCall(swr, r)
    /\ UNCHANGED <<fs, pc, prev, cache, state_file, clock, user_label, label,
                   profiles_index, profile_files>>

\* time passes
Later ==
    /\ clock < MaxDays * TicksPerDay
    /\ clock' = clock + 1
    /\ UNCHANGED <<fs, pc, last, prev, cache, state_file, user_label, label,
                   settings_file, profiles_index, profile_files>>

SchedNext == Startup \/ SaveCacheSettings \/ Later

SchedSpec == SchedInit /\ [][SchedNext]_vars

\* The application in use from its first start on: no settings file and no
\* state file yet; the cache is cleared by hand (gui.run_clear_cache) and at
\* the starts of the application (main.check_auto_clear), and the settings
\* are saved, in any order.
HistInit ==
    /\ fs = [dirs |-> {}, ent |-> NoMap]
    /\ pc = "running"
    /\ last = NoCall
    /\ prev = NoCall
    /\ cache \in {[data |-> FALSE, present |-> {}], [data |-> TRUE, present |-> {"cache"}]}
    /\ state_file = Missing
    /\ clock = 0
    /\ user_label = NoCallback
    /\ label = <<>>
    /\ settings_file = Missing
    /\ profiles_index = Missing
    /\ profile_files = NoProfiles

HistNext == ClearCache \/ Startup \/ SaveCacheSettings \/ Tick

HistSpec == HistInit /\ [][HistNext]_vars

----------------------------------------------------------------------------
(* The profile store (profiles.py)                                         *)

\* how many profiles are saved in one run
MaxProfiles == 2

\* datetime.now().strftime("%Y%m%d_%H%M%S"): one id per clock second
profile_id_of(now) == strftime(now)

Entry(id, name, description, created) ==
    [id |-> id, name |-> name, description |-> description, created |-> created]

\* the content of <id>.json; ok is whether json.load accepts it
ProfileData(id, name, description, created, config) ==
    [ok |-> TRUE, id |-> id, name |-> name, description |-> description,
     created |-> created, config |-> config]

NoConfig == [ShadowQuality |-> ""]

\* a snapshot whose write failed after the file was opened
TornProfile == [ok |-> FALSE, id |-> NoTs, name |-> "", description |-> "",
                created |-> NoTs, config |-> NoConfig]

EmptyIndex == [profiles |-> <<>>]

\* load_profiles_index: [raised, map, kv]
load_profiles_index(idx) ==
    IF idx.kind \in {"missing", "denied", "bad_json"}
    THEN [raised |-> FALSE, map |-> TRUE, kv |-> EmptyIndex]
    ELSE IF idx.kind = "bad_utf8" THEN [raised |-> TRUE, map |-> FALSE, kv |-> NoMap]
    ELSE [raised |-> FALSE, map |-> idx.map, kv |-> idx.kv]

\* save_profiles_index: ensure_profiles_dir, then the write; IOError is
\* swallowed.  [dir, index]
save_profiles_index(pf, idx, kv, iwr) ==
    IF iwr = "ok" THEN [dir |-> TRUE, index |-> Json(kv)]
    ELSE IF iwr = "torn" THEN [dir |-> TRUE, index |-> Unreadable("bad_json")]
    ELSE [dir |-> pf.dir, index |-> idx]

\* index["profiles"] can be evaluated
HasProfiles(index) == ~index.raised /\ index.map /\ "profiles" \in DOMAIN index.kv

\* get_all_profiles: index.get("profiles", []), when the index is an object
get_all_profiles(idx) ==
    LET index == load_profiles_index(idx) IN
    IF index.raised \/ ~index.map THEN [raised |-> TRUE, list |-> <<>>]
    ELSE [raised |-> FALSE, list |-> Get(index.kv, "profiles", <<>>)]

PutFile(files, id, data) ==
    [x \in (DOMAIN files) \cup {id} |-> IF x = id THEN data ELSE files[x]]

DropFile(files, id) == [x \in (DOMAIN files) \ {id} |-> files[x]]

\* save_profile: [ret, pf, index].  dirfail: os.makedirs(PROFILES_DIR)
\* raises; fwr, iwr: what the operating system does with the two writes.
save_profile(pf, idx, now, name, description, config, dirfail, fwr, iwr) ==
    IF ~pf.dir /\ dirfail THEN [ret |-> FALSE, pf |-> pf, index |-> idx]
    ELSE
    LET profile_id == profile_id_of(now)
        profile_data == ProfileData(profile_id, name, description, strftime(now), config)
        dir == [pf EXCEPT !.dir = TRUE]
    IN
    IF fwr = "refused" THEN [ret |-> FALSE, pf |-> dir, index |-> idx]
    ELSE IF fwr = "torn"
         THEN [ret |-> FALSE,
               pf |-> [dir EXCEPT !.files = PutFile(@, profile_id, TornProfile)],
               index |-> idx]
    ELSE
    LET written == [dir EXCEPT !.files = PutFile(@, profile_id, profile_data)]
        index == load_profiles_index(idx)
    IN
    IF ~HasProfiles(index) THEN [ret |-> FALSE, pf |-> written, index |-> idx]
    ELSE LET saved == save_profiles_index(written, idx,
                        [index.kv EXCEPT !.profiles =
                            Append(@, Entry(profile_id, name, description, strftime(now)))],
                        iwr)
         IN [ret |-> TRUE, pf |-> written, index |-> saved.index]

\* load_profile: [found, data]
load_profile(pf, profile_id) ==
    IF profile_id \in DOMAIN pf.files /\ pf.files[profile_id].ok
    THEN [found |-> TRUE, data |-> pf.files[profile_id]]
    ELSE [found |-> FALSE, data |-> TornProfile]

RECURSIVE Without(_, _)
Without(profiles, profile_id) ==
    IF profiles = <<>> THEN <<>>
    ELSE IF profiles[1].id # profile_id
         THEN <<profiles[1]>> \o Without(Tail(profiles), profile_id)
         ELSE Without(Tail(profiles), profile_id)

\* delete_profile: [ret, pf, index].  rmfail: os.remove raises
delete_profile(pf, idx, profile_id, rmfail, iwr) ==
    IF profile_id \in DOMAIN pf.files /\ rmfail
    THEN [ret |-> FALSE, pf |-> pf, index |-> idx]
    ELSE
    LET removed == [pf EXCEPT !.files = DropFile(@, profile_id)]
        index == load_profiles_index(idx)
    IN
    IF ~HasProfiles(index) THEN [ret |-> FALSE, pf |-> removed, index |-> idx]
    ELSE LET saved == save_profiles_index(removed, idx,
                        [index.kv EXCEPT !.profiles = Without(@, profile_id)], iwr)
         IN [ret |-> TRUE, pf |-> [removed EXCEPT !.dir = saved.dir], index |-> saved.index]

\* what the dialog and the loaded XML give save_new_profile: a name and
\* the settings read from the XML
NewProfiles ==
    {[name |-> "Ultra", config |-> [ShadowQuality |-> "3"]],
     [name |-> "Low", config |-> [ShadowQuality |-> "1"]]}

\* an id no profile has
UnknownId == MaxClock + 1

Ids(profiles) == {profiles[i].id : i \in 1..Len(profiles)}

\* the ids a caller may ask to delete: listed ones, those of snapshot
\* files, and one that was never given out
DeleteIds ==
    Ids(get_all_profiles(profiles_index).list) \cup DOMAIN profile_files.files
        \cup {UnknownId}

\* the store as it is before the first profile is saved
EmptyStore == profiles_index = Missing /\ profile_files = NoProfiles

\* no call so far met an I/O failure, and the first one found the store empty
Clean(c) == IF c.op \in {"save_profile", "delete_profile"} THEN c.clean ELSE EmptyStore

\* io_ok: the operating system refused nothing in this call
ProfileCall(op, id, name, config, iwr, io_ok, r) ==
    [op |-> op, ret |-> r.ret, id |-> id, name |-> name, config |-> config,
     iwr |-> iwr, pre_index |-> profiles_index, pre_files |-> profile_files,
     clean |-> Clean(last) /\ io_ok]

ProfInit ==
    /\ fs = [dirs |-> {}, ent |-> NoMap]
    /\ pc = "idle"
    /\ last = NoCall
    /\ prev = NoCall
    /\ cache = [data |-> FALSE, present |-> {}]
    /\ state_file = Missing
    /\ clock = 0
    /\ user_label = NoCallback
    /\ label = <<>>
    /\ settings_file = Missing
    /\ profiles_index \in {Missing, NotAMap, Json(NoMap), Unreadable("bad_utf8")}
    /\ profile_files = NoProfiles

\* gui.save_new_profile: save_profile(name, "", config)
SaveProfile ==
    /\ Len(get_all_profiles(profiles_index).list) < MaxProfiles
    /\ \E new \in NewProfiles,
          dirfail \in (IF profile_files.dir THEN {FALSE} ELSE BOOLEAN),
          fwr \in WriteOutcomes, iwr \in WriteOutcomes :
        LET r == save_profile(profile_files, profiles_index, clock, new.name, "",
                              new.config, dirfail, fwr, iwr) IN
        /\ profile_files' = r.pf
        /\ profiles_index' = r.index
        /\ last' = ProfileCall("save_profile", profile_id_of(clock), new.name,
                                new.config, iwr,
                                ~dirfail /\ fwr = "ok" /\ iwr = "ok", r)
    /\ UNCHANGED <<fs, pc, prev, cache, state_file, clock, user_label, label, settings_file>>

\* gui.delete_selected_profile: delete_profile(profile_id)
DeleteProfile ==
    /\ \E profile_id \in DeleteIds, iwr \in WriteOutcomes :
       \E rmfail \in (IF profile_id \in DOMAIN profile_files.files
                        THEN BOOLEAN ELSE {FALSE}) :
        LET r == delete_profile(profile_files, profiles_index, profile_id, rmfail, iwr) IN
        /\ profile_files' = r.pf
        /\ profiles_index' = r.index
        /\ last' = ProfileCall("delete_profile", profile_id, "", NoConfig, iwr,
                                ~rmfail /\ iwr = "ok", r)
    /\ UNCHANGED <<fs, pc, prev, cache, state_file, clock, user_label, label, settings_file>>

ProfNext == SaveProfile \/ DeleteProfile \/ Tick

ProfSpec == ProfInit /\ [][ProfNext]_vars

----------------------------------------------------------------------------
(* Two instances of the application saving a profile each (RaceSpec).      *)
(* save_profile takes no lock: its three file accesses are steps of their  *)
(* own, and pc and last hold one value per instance.                       *)

Procs == {1, 2}

\* what instance p saves
Saving(p) ==
    IF p = 1 THEN [name |-> "Ultra", config |-> [ShadowQuality |-> "3"]]
    ELSE [name |-> "Low", config |-> [ShadowQuality |-> "1"]]

\* the local variables of a save_profile call: profile_id, profile_data's
\* fields, index; pre_index is the index file as load_profiles_index found
\* it, ret the value returned, io_ok whether every write was carried out
SaveFrame(p) ==
    [op |-> "save_profile", id |-> NoTs, name |-> Saving(p).name,
     description |-> "", created |-> NoTs, config |-> Saving(p).config,
     index |-> EmptyIndex, pre_index |-> Missing, ret |-> FALSE, io_ok |-> TRUE]

\* (mutant) the index is written with the new entry alone
with_entry_only(index, f) ==
    [index EXCEPT !.profiles = <<Entry(f.id, f.name, f.description, f.created)>>]

\* profiles.py:89-94: index["profiles"].append({...})
with_entry(index, f) ==
    [index EXCEPT !.profiles = Append(@, Entry(f.id, f.name, f.description, f.created))]

RaceInit ==
    /\ fs = [dirs |-> {}, ent |-> NoMap]
    /\ pc = [p \in Procs |-> "idle"]
    /\ last = [p \in Procs |-> SaveFrame(p)]
    /\ prev = NoCall
    /\ cache = [data |-> FALSE, present |-> {}]
    /\ state_file = Missing
    /\ clock = 0
    /\ user_label = NoCallback
    /\ label = <<>>
    /\ settings_file = Missing
    /\ profiles_index \in {Missing, NotAMap, Json(EmptyIndex)}
    /\ profile_files = NoProfiles

Return(p, f, ret) ==
    /\ pc' = [pc EXCEPT ![p] = "done"]
    /\ last' = [last EXCEPT ![p] = [f EXCEPT !.ret = ret]]

\* profiles.py:70-85: the directory, the id, and the snapshot file
WriteSnapshot(p) ==
    /\ pc[p] = "idle"
    /\ \E dirfail \in (IF profile_files.dir THEN {FALSE} ELSE BOOLEAN),
          fwr \in WriteOutcomes :
        LET f == [last[p] EXCEPT !.id = profile_id_of(clock),
                                 !.created = strftime(clock),
                                 !.io_ok = ~dirfail /\ fwr = "ok"]
            dir == [profile_files EXCEPT !.dir = TRUE]
        IN
        IF dirfail THEN Return(p, f, FALSE) /\ UNCHANGED profile_files
        ELSE IF fwr = "refused" THEN Return(p, f, FALSE) /\ profile_files' = dir
        ELSE IF fwr = "torn"
             THEN /\ Return(p, f, FALSE)
                  /\ profile_files' = [dir EXCEPT !.files = PutFile(@, f.id, TornProfile)]
        ELSE /\ profile_files' =
                    [dir EXCEPT !.files =
                        PutFile(@, f.id,
                                ProfileData(f.id, f.name, f.description, f.created, f.config))]
             /\ pc' = [pc EXCEPT ![p] = "written"]
             /\ last' = [last EXCEPT ![p] = f]
    /\ UNCHANGED <<fs, prev, cache, state_file, clock, user_label, label,
                   settings_file, profiles_index>>

\* profiles.py:88-94: index = load_profiles_index(); index["profiles"].append
LoadIndex(p) ==
    /\ pc[p] = "written"
    /\ LET index == load_profiles_index(profiles_index)
           f == [last[p] EXCEPT !.pre_index = profiles_index]
       IN
       IF ~HasProfiles(index) THEN Return(p, f, FALSE)
       ELSE /\ pc' = [pc EXCEPT ![p] = "loaded"]
            /\ last' = [last EXCEPT ![p] = [f EXCEPT !.index = with_entry(index.kv, f)]]
    /\ UNCHANGED <<fs, prev, cache, state_file, clock, user_label, label,
                   settings_file, profiles_index, profile_files>>

\* profiles.py:95-97: save_profiles_index(index); return True
WriteIndex(p) ==
    /\ pc[p] = "loaded"
    /\ \E iwr \in WriteOutcomes :
        LET saved == save_profiles_index(profile_files, profiles_index, last[p].index, iwr)
        IN
        /\ profiles_index' = saved.index
        /\ profile_files' = [profile_files EXCEPT !.dir = saved.dir]
        /\ Return(p, [last[p] EXCEPT !.io_ok = @ /\ iwr = "ok"], TRUE)
    /\ UNCHANGED <<fs, prev, cache, state_file, clock, user_label, label, settings_file>>

RaceNext ==
    \/ \E p \in Procs : WriteSnapshot(p)
    \/ \E p \in Procs : LoadIndex(p)
    \/ \E p \in Procs : WriteIndex(p)
    \/ Tick

RaceSpec == RaceInit /\ [][RaceNext]_vars

----------------------------------------------------------------------------
(* Properties of move_files_logic and revert_files_logic (Spec)            *)

EngineCall == pc = "returned" /\ last.op \in {"sanitize", "restore"}

\* where a call takes the folders from, and where it puts them
FromDir(c) == IF c.op = "sanitize" THEN c.a.source_dir ELSE c.a.destination_dir
ToDir(c) == IF c.op = "sanitize" THEN c.a.destination_dir ELSE c.a.source_dir

FlaggedFolders(a) ==
    {n \in {FOLDER1_NAME, FOLDER2_NAME} :
        \/ n = FOLDER1_NAME /\ a.include_mods
        \/ n = FOLDER2_NAME /\ a.include_plugins}

ItemOf(n) == IF n = FOLDER1_NAME THEN "mods" ELSE "plugins"

\* path p is in f exactly as it is in g
Same(f, g, p) ==
    /\ Exists(f, p) <=> Exists(g, p)
    /\ Exists(f, p) => f.ent[p] = g.ent[p]

OnlyLogs(trace) == \A i \in 1..Len(trace) : trace[i].k = "log"

\* C1: after a Sanitize that returned true every flagged folder is under
\* destRoot (with the content it had under sourceRoot) and not under
\* sourceRoot; after a Restore that returned true, the inverse.
C1_FoldersMoved ==
    (EngineCall /\ last.ret) =>
        \A n \in FlaggedFolders(last.a) :
            /\ Exists(fs, P(ToDir(last), n))
            /\ ~Exists(fs, P(FromDir(last), n))
            /\ fs.ent[P(ToDir(last), n)] = last.pre.ent[P(FromDir(last), n)]

\* a Sanitize that moved both folders over earlier backups and swapped the
\* settings file
C1_Witness ==
    /\ EngineCall /\ last.op = "sanitize" /\ last.ret
    /\ last.a.include_mods /\ last.a.include_plugins /\ last.a.include_xml
    /\ Exists(last.pre, P("D", FOLDER1_NAME))
    /\ Exists(fs, P("D", FOLDER2_NAME))

\* C2: a Sanitize that returned true, followed by the Restore of the same
\* directories and flags with the backup file Sanitize wrote as its xml
\* path, puts every flagged folder back under sourceRoot with the content
\* it had before the Sanitize, and leaves none under destRoot (no file
\* operation being refused by the operating system during the Restore).
C2_RoundTrip ==
    (/\ EngineCall /\ last.op = "restore"
     /\ prev.op = "sanitize" /\ prev.ret
     /\ last.a = RestoreOf(prev)
     /\ ~last.refused) =>
        \A n \in FlaggedFolders(last.a) :
            /\ last.ret
            /\ Exists(fs, P(last.a.source_dir, n))
            /\ ~Exists(fs, P(last.a.destination_dir, n))
            /\ fs.ent[P(last.a.source_dir, n)] = prev.pre.ent[P(last.a.source_dir, n)]

C2_Witness ==
    /\ EngineCall /\ last.op = "restore" /\ last.ret
    /\ prev.op = "sanitize" /\ prev.ret
    /\ last.a = RestoreOf(prev)
    /\ last.a.include_mods /\ last.a.include_plugins /\ last.a.include_xml
    /\ Exists(fs, P("S", FOLDER1_NAME)) /\ Exists(fs, P("S", FOLDER2_NAME))

\* the pre-flight conditions of Sanitize, on the file system f the call finds
SanitizePreflightFails(f, a) ==
    \/ a.include_xml /\ a.xml_source_dir = a.destination_dir
    \/ (a.include_mods \/ a.include_plugins) /\ a.source_dir = a.destination_dir
    \/ (a.include_mods \/ a.include_plugins) /\ ~DirExists(f, a.source_dir)
    \/ a.include_mods /\ ~Exists(f, P(a.source_dir, FOLDER1_NAME))
    \/ a.include_plugins /\ ~Exists(f, P(a.source_dir, FOLDER2_NAME))
    \/ a.include_xml /\ ~DirExists(f, a.xml_source_dir)
    \/ a.include_xml /\ ~Exists(f, XmlSrc(a))
    \/ a.include_xml /\ ~Exists(f, a.replacement_xml_path)

\* C3: a Sanitize that fails a pre-flight check returns false and has
\* changed nothing: the file system is what it was (destRoot not created),
\* and the call has only logged (no prompt, no file operation).
C3_SanitizePreflight ==
    (/\ EngineCall /\ last.op = "sanitize"
     /\ \/ SanitizePreflightFails(last.pre, last.a)
        \/ last.why \in {"same_dir", "not_found"}) =>
        /\ ~last.ret
        /\ fs = last.pre
        /\ OnlyLogs(last.trace)

\* mods absent, plugins present, both flagged, destRoot not there yet
C3_Witness ==
    /\ EngineCall /\ last.op = "sanitize" /\ ~last.ret
    /\ last.a.include_mods /\ last.a.include_plugins
    /\ last.a.source_dir # last.a.destination_dir
    /\ ~Exists(last.pre, P(last.a.source_dir, FOLDER1_NAME))
    /\ Exists(last.pre, P(last.a.source_dir, FOLDER2_NAME))
    /\ ~DirExists(last.pre, last.a.destination_dir)
    /\ Exists(fs, P(last.a.source_dir, FOLDER2_NAME))

\* the pre-flight conditions of Restore
RestorePreflightFails(f, a) ==
    \/ a.source_dir = a.destination_dir
    \/ ~DirExists(f, a.destination_dir)
    \/ a.include_mods /\ ~Exists(f, P(a.destination_dir, FOLDER1_NAME))
    \/ a.include_plugins /\ ~Exists(f, P(a.destination_dir, FOLDER2_NAME))
    \/ a.include_xml /\ ~Exists(f, XmlInDest(a))

\* C4 (as claimed): a Restore that fails a pre-flight check returns false
\* and has created, moved and deleted nothing.
C4_RestorePreflight ==
    (EngineCall /\ last.op = "restore" /\ RestorePreflightFails(last.pre, last.a)) =>
        /\ ~last.ret
        /\ fs = last.pre

\* C5 (as claimed): every Sanitize or Restore that returned false has
\* logged at least one message.
C5_FailureLogged ==
    (EngineCall /\ ~last.ret) =>
        \E i \in 1..Len(last.trace) : last.trace[i].k = "log"

\* C6 (as claimed): Sanitize returns false and changes nothing whenever a
\* flag is set and sourceRoot = destRoot, or xml is set and
\* xmlSourceDir = destRoot.
C6_SameDirectory ==
    (/\ EngineCall /\ last.op = "sanitize"
     /\ \/ /\ last.a.include_mods \/ last.a.include_plugins \/ last.a.include_xml
           /\ last.a.source_dir = last.a.destination_dir
        \/ last.a.include_xml /\ last.a.xml_source_dir = last.a.destination_dir) =>
        /\ ~last.ret
        /\ fs = last.pre

\* the steps of a call, in the order of the code: the directory it may
\* create, mods, plugins, the settings file
Rank(item) ==
    CASE item \in {"dest", "source", "xml_dir"} -> 0
      [] item = "mods" -> 1
      [] item = "plugins" -> 2
      [] OTHER -> 3

\* C7: when the operating system refuses a file operation of Sanitize or
\* Restore, the call returns false and its last message is the error; every
\* flagged folder whose step came before the refused one is at its new place
\* and stays there; nothing was done for a later step: no message, prompt or
\* file operation of a later item, its folders and the settings file are as
\* they were.
C7_PartialFailure ==
    (EngineCall /\ last.refused) =>
        LET r == Rank(last.hit[2]) IN
        /\ ~last.ret
        /\ last.trace # <<>>
        /\ last.trace[Len(last.trace)] = Ev("log", "error", "")
        /\ \A i \in 1..(Len(last.trace) - 1) : Rank(last.trace[i].item) <= r
        /\ \A n \in FlaggedFolders(last.a) :
            /\ Rank(ItemOf(n)) < r =>
                /\ Exists(fs, P(ToDir(last), n))
                /\ ~Exists(fs, P(FromDir(last), n))
                /\ fs.ent[P(ToDir(last), n)] = last.pre.ent[P(FromDir(last), n)]
            /\ Rank(ItemOf(n)) > r =>
                /\ Same(fs, last.pre, P(ToDir(last), n))
                /\ Same(fs, last.pre, P(FromDir(last), n))
        /\ (last.a.include_xml /\ r < 3) =>
                /\ Same(fs, last.pre, XmlSrc(last.a))
                /\ \A i \in 1..Len(last.trace) : last.trace[i].k # "prompt"

\* mods was moved, the move of plugins was refused, the settings file and
\* the prompt were never reached
C7_Witness ==
    /\ EngineCall /\ last.op = "sanitize" /\ last.refused
    /\ last.hit = <<"move", "plugins">>
    /\ last.a.include_mods /\ last.a.include_xml /\ last.prompt.cb
    /\ Exists(fs, P(last.a.destination_dir, FOLDER1_NAME))
    /\ Exists(fs, P(last.a.source_dir, FOLDER2_NAME))

\* C8 (as claimed): after a Sanitize with xml flagged that returned true,
\* the labeled backup holds what the settings file held, the settings file
\* holds what the replacement held, and the replacement is still at its
\* path, unchanged.
C8_SettingsSwap ==
    (EngineCall /\ last.op = "sanitize" /\ last.ret /\ last.a.include_xml) =>
        LET b == LabeledDest(last.a, last.prompt)
            r == last.a.replacement_xml_path
        IN  /\ Exists(fs, b)
            /\ fs.ent[b] = last.pre.ent[XmlSrc(last.a)]
            /\ Exists(fs, XmlSrc(last.a))
            /\ fs.ent[XmlSrc(last.a)] = last.pre.ent[r]
            /\ Same(fs, last.pre, r)

\* how many times the call moved item
Moves(trace, item) ==
    Cardinality({i \in 1..Len(trace) : trace[i] = Ev("op", "move", item)})

\* the call said, asked or did something about item
Touched(trace, item) == \E i \in 1..Len(trace) : trace[i].item = item

IsFolder(p) == p.n \in {FOLDER1_NAME, FOLDER2_NAME}

\* C21: a folder whose flag is false is not touched: no message and no file
\* operation names it and it is where it was, with its content; a call that
\* returned true made exactly one move for each flagged folder; and with
\* xml not flagged no file (settings file, backup, replacement) is moved,
\* copied or deleted and the label prompt is not invoked.
C21_UnflaggedUntouched ==
    EngineCall =>
        /\ \A n \in {FOLDER1_NAME, FOLDER2_NAME} \ FlaggedFolders(last.a) :
            /\ ~Touched(last.trace, ItemOf(n))
            /\ \A d \in Dirs : Same(fs, last.pre, P(d, n))
        /\ last.ret =>
            \A n \in FlaggedFolders(last.a) : Moves(last.trace, ItemOf(n)) = 1
        /\ ~last.a.include_xml =>
            /\ ~Touched(last.trace, "xml")
            /\ \A i \in 1..Len(last.trace) : last.trace[i].k # "prompt"
            /\ \A q \in (DOMAIN fs.ent) \cup (DOMAIN last.pre.ent) :
                ~IsFolder(q) => Same(fs, last.pre, q)

\* a Restore of mods only: plugins stays in the destination directory, the
\* backup file too
C21_Witness ==
    /\ EngineCall /\ last.op = "restore" /\ last.ret
    /\ last.a.include_mods /\ ~last.a.include_plugins /\ ~last.a.include_xml
    /\ Exists(fs, P("S", FOLDER1_NAME))
    /\ Exists(fs, P("D", FOLDER2_NAME))
    /\ Exists(fs, P("D", LabeledName(XML_FILENAME, BackupLabel)))

\* an event of one of the three steps
IsStep(e) == e.item \in {"mods", "plugins", "xml"} /\ e.what # "same_dir"

IsDelete(e) == e.k = "op" /\ e.what \in {"rmtree", "remove"}

\* C22: within one call everything about mods comes before everything
\* about plugins, and both before everything about the settings file (the
\* prompt included); for each item the overwrite warning is logged right
\* before the existing target is deleted, and the deletion comes before the
\* item's move.
C22_StepOrder ==
    EngineCall =>
        /\ \A i, j \in 1..Len(last.trace) :
            (i < j /\ IsStep(last.trace[i]) /\ IsStep(last.trace[j])) =>
                Rank(last.trace[i].item) <= Rank(last.trace[j].item)
        /\ \A i \in 1..Len(last.trace) :
            IsDelete(last.trace[i]) =>
                /\ i > 1
                /\ last.trace[i - 1] = Ev("log", "overwrite", last.trace[i].item)
                /\ \A j \in 1..Len(last.trace) :
                    last.trace[j] = Ev("op", "move", last.trace[i].item) => i < j
        /\ \A i \in 1..Len(last.trace) :
            (last.trace[i].k = "log" /\ last.trace[i].what = "overwrite") =>
                \A j \in 1..Len(last.trace) :
                    (IsDelete(last.trace[j]) /\ last.trace[j].item = last.trace[i].item)
                        => i < j

\* all three steps overwrote an earlier backup
C22_Witness ==
    /\ EngineCall /\ last.op = "sanitize" /\ last.ret
    /\ \E i, j, k \in 1..Len(last.trace) :
        /\ last.trace[i] = Ev("op", "rmtree", "mods")
        /\ last.trace[j] = Ev("op", "rmtree", "plugins")
        /\ last.trace[k] = Ev("op", "remove", "xml")
        /\ i < j /\ j < k

\* the Restore of what the Sanitize before it moved
RestoreAfterSanitize ==
    /\ EngineCall /\ last.op = "restore"
    /\ prev.op = "sanitize" /\ prev.ret
    /\ last.a = RestoreOf(prev)

\* C25 (as claimed): whenever Sanitize returned true, the Restore of the
\* same directories and flags that follows it, with the backup Sanitize
\* wrote as xml path, returns true too (the operating system refusing
\* nothing), whatever the flags and however the three directories relate.
C25_RestoreFollows ==
    (RestoreAfterSanitize /\ ~last.refused) => last.ret

\* the same Sanitize called again right after it returned true
SanitizeTwice ==
    /\ EngineCall /\ last.op = "sanitize"
    /\ prev.op = "sanitize" /\ prev.ret
    /\ last.a = prev.a

\* a call deletes a folder at its target only after every pre-flight check
\* has passed and with the folder at the origin to take its place
DeletesOnlyToReplace ==
    EngineCall =>
        \A n \in {FOLDER1_NAME, FOLDER2_NAME} :
            (\E i \in 1..Len(last.trace) : last.trace[i] = Ev("op", "rmtree", ItemOf(n))) =>
                /\ n \in FlaggedFolders(last.a)
                /\ Exists(last.pre, P(FromDir(last), n))
                /\ Exists(last.pre, P(ToDir(last), n))
                /\ IF last.op = "sanitize"
                   THEN ~SanitizePreflightFails(last.pre, last.a)
                   ELSE ~RestorePreflightFails(last.pre, last.a)

\* C26 (as claimed): a folder at the target is deleted only to be replaced,
\* and a second Sanitize right after one that returned true returns false
\* and leaves the folders in destRoot as they are.
C26_BackupKept ==
    /\ DeletesOnlyToReplace
    /\ SanitizeTwice =>
        /\ ~last.ret
        /\ \A n \in {FOLDER1_NAME, FOLDER2_NAME} :
            Same(fs, last.pre, P(last.a.destination_dir, n))

\* C26 (amended): a folder at the target is deleted only to be replaced,
\* and a second Sanitize right after one that returned true, with at least
\* one folder flagged, returns false and leaves the folders in destRoot as
\* they are.
C26_BackupKeptFlagged ==
    /\ DeletesOnlyToReplace
    /\ (SanitizeTwice /\ FlaggedFolders(last.a) # {}) =>
        /\ ~last.ret
        /\ fs = last.pre
        /\ \A n \in FlaggedFolders(last.a) :
            /\ Exists(fs, P(last.a.destination_dir, n))
            /\ fs.ent[P(last.a.destination_dir, n)]
                  = prev.pre.ent[P(last.a.source_dir, n)]

\* the second Sanitize of both folders found them gone from sourceRoot
C26_Witness ==
    /\ SanitizeTwice /\ ~last.ret
    /\ last.a.include_mods /\ last.a.include_plugins
    /\ \E i \in 1..Len(prev.trace) : prev.trace[i] = Ev("op", "rmtree", "mods")
    /\ fs.ent[P("D", FOLDER1_NAME)] = "mods1"
    /\ fs.ent[P("D", FOLDER2_NAME)] = "plugins1"

\* C27 (as claimed): when a file is at the settings-file location before a
\* Sanitize or Restore with xml flagged and the operating system refuses
\* nothing, a file is at that location when the call returns.
C27_SettingsFileStays ==
    (/\ EngineCall /\ last.a.include_xml
     /\ Exists(last.pre, XmlSrc(last.a))
     /\ ~last.refused) =>
        Exists(fs, XmlSrc(last.a))

----------------------------------------------------------------------------
(* The label (LabelSpec)                                                   *)

\* C9: the label in the backup file name is made of alphanumeric
\* characters, spaces, '-' and '_' only, and it is "backup" when there is no
\* prompt function, when the prompt was cancelled and when it returned the
\* empty string.
C9_Label ==
    pc = "labelled" =>
        /\ \A i \in 1..Len(label) : label[i] \in Letters \cup {" ", "-", "_"}
        /\ LabeledName(XML_FILENAME, label)
              = <<"g", "t", "a", "_">> \o label \o <<".", "x", "m", "l">>
        /\ (~user_label.cb \/ user_label.none \/ user_label.text = <<>>) =>
              label = <<"b", "a", "c", "k", "u", "p">>

\* punctuation typed between two letters is gone from the label
C9_Witness ==
    /\ pc = "labelled"
    /\ user_label = Typed(<<"Z", "!", "a">>)
    /\ label = <<"Z", "a">>

\* C28 (as claimed): the label in the backup file name is never the empty
\* string, whatever the prompt returned, a text of stripped characters or
\* of spaces only included.
C28_LabelNotEmpty ==
    pc = "labelled" =>
        /\ label # <<>>
        /\ LabeledName(XML_FILENAME, label) # <<"g", "t", "a", "_", ".", "x", "m", "l">>

----------------------------------------------------------------------------
(* The cache sweep (CacheSpec)                                             *)

\* C10: clear_cache_logic on a root without data directory returns
\* (False, None), deletes nothing and leaves the state file as it is.
C10_NoDataDir ==
    (last.op = "clear_cache" /\ ~last.pre.data) =>
        /\ ~last.ret
        /\ last.ts = NoTs
        /\ cache = last.pre
        /\ state_file = last.pre_state
        /\ \A i \in 1..Len(last.trace) : last.trace[i].k = "log"

\* the call was made with a writable state file holding an older timestamp
C10_Witness ==
    /\ last.op = "clear_cache" /\ ~last.pre.data
    /\ state_file = Json(SetKey(NoMap, "last_cache_clear", 0))
    /\ clock > 0

\* the targets the call named, in the order of its messages
RECURSIVE Visited(_)
Visited(trace) ==
    IF trace = <<>> THEN <<>>
    ELSE IF trace[1].k = "log" /\ trace[1].what \in {"deleting", "not_found"}
         THEN <<trace[1].item>> \o Visited(Tail(trace))
         ELSE Visited(Tail(trace))

\* the targets whose deletion the call attempted
Attempted(trace) ==
    {trace[i].item : i \in {j \in 1..Len(trace) : trace[j].what = "deleting"}}

\* the targets the call deleted
Deleted(trace) ==
    {trace[i].item : i \in {j \in 1..Len(trace) : trace[j].what = "rmtree"}}

\* the sweep of C11 without its result: each target once and in order, a
\* deletion attempted for exactly the targets present, whatever was refused
\* before
SweepInOrder ==
    (last.op = "clear_cache" /\ last.pre.data) =>
        /\ Visited(last.trace) = targets
        /\ Attempted(last.trace) = last.pre.present
        /\ cache.present = last.pre.present \ Deleted(last.trace)

\* C11 (as claimed): with <root>/data present, ClearCache visits cache,
\* server-cache, server-cache-priv once each in that order, attempts the
\* deletion of exactly the targets present, goes on after a refused deletion,
\* and returns (true, timestamp) however many deletions failed.
C11_SweepReturnsTrue ==
    (last.op = "clear_cache" /\ last.pre.data) =>
        /\ SweepInOrder
        /\ last.ret
        /\ last.ts # NoTs

\* C12 (as claimed): whenever ClearCache returned (true, ts), the state read
\* back has last_cache_clear = ts.
C12_ReadBack ==
    (last.op = "clear_cache" /\ last.ret) =>
        LET state == load_state(state_file) IN
        /\ ~state.raised /\ state.map
        /\ "last_cache_clear" \in DOMAIN state.kv
        /\ state.kv["last_cache_clear"] = last.ts

\* C12 (amended): whenever ClearCache returned (true, ts) and the operating
\* system carried out the write of the state file, the state read back has
\* last_cache_clear = ts.
C12_ReadBackWritten ==
    (last.op = "clear_cache" /\ last.ret /\ last.wr = "ok") =>
        LET state == load_state(state_file) IN
        /\ ~state.raised /\ state.map
        /\ "last_cache_clear" \in DOMAIN state.kv
        /\ state.kv["last_cache_clear"] = last.ts

\* an older timestamp was in the state file and has been replaced
C12_Witness ==
    /\ last.op = "clear_cache" /\ last.ret /\ last.wr = "ok"
    /\ last.pre_state = Json(SetKey(NoMap, "last_cache_clear", 0))
    /\ last.ts = 1
    /\ state_file = Json(SetKey(NoMap, "last_cache_clear", 1))

\* C13 (as claimed): with <root>/data present ClearCache returns
\* (true, timestamp) whatever the state file is (missing, unreadable, not
\* JSON, JSON but not a map, not writable), and reading such a file gives
\* the empty map.
C13_PersistenceNeverDecides ==
    (last.op = "clear_cache" /\ last.pre.data) =>
        /\ last.ret
        /\ last.ts # NoTs
        /\ (last.pre_state.kind # "json" \/ ~last.pre_state.map) =>
               LET state == load_state(last.pre_state) IN
               ~state.raised /\ state.map /\ state.kv = NoMap

----------------------------------------------------------------------------
(* The scheduler (SchedSpec)                                               *)

AutoCall == last.op = "auto_clear"

\* the settings a file stands for, when it can be read as settings at all
Readable(sf) == LET l == load_cache_settings(sf) IN ~l.raised /\ l.map
Enabled(sf) == Get(load_cache_settings(sf).kv, "auto_clear_enabled", FALSE)
OnStartup(sf) == Get(load_cache_settings(sf).kv, "auto_clear_on_startup", FALSE)
IntervalDays(sf) == Get(load_cache_settings(sf).kv, "auto_clear_days", DEFAULT_DAYS)
LastClear(sf) == Get(load_cache_settings(sf).kv, "last_auto_clear", NoTs)

\* enabled, not on startup, every n >= 1 days
Recurring(sf) ==
    Readable(sf) /\ Enabled(sf) /\ ~OnStartup(sf) /\ IntervalDays(sf) >= 1

\* C14 (as claimed): with enabled false in the persisted settings the
\* auto-clear check never invokes ClearCache and never changes the
\* persisted settings, whatever the other three fields are.
C14_DisabledDoesNothing ==
    (AutoCall /\ Readable(last.pre) /\ ~Enabled(last.pre)) =>
        /\ ~last.invoked
        /\ settings_file = last.pre

\* C23 (as claimed): every write of the settings file stores
\* auto_clear_days >= 1, the write of update_cache_settings with any
\* integer and the write of check_and_auto_clear after a clear, whatever
\* auto_clear_days it loaded.
C23_ClampedOnWrite ==
    [][(settings_file' # settings_file /\ Readable(settings_file')) =>
            IntervalDays(settings_file') >= 1]_vars

\* the whole days from second ts to tick now
WholeDays(ts, now) ==
    CHOOSE d \in 0..(MaxDays + 1) :
        /\ d * TicksPerDay <= now - ts * TicksPerSecond
        /\ now - ts * TicksPerSecond < (d + 1) * TicksPerDay

\* C15: with enabled true the check clears when runOnStartup is true;
\* otherwise exactly when lastClear is null, or does not parse, or the
\* whole days from lastClear to now are at least intervalDays.
C15_Decision ==
    (AutoCall /\ Readable(last.pre) /\ Enabled(last.pre)) =>
        (last.invoked <=>
            \/ OnStartup(last.pre)
            \/ LastClear(last.pre) = NoTs
            \/ LastClear(last.pre) = Garbage
            \/ /\ LastClear(last.pre) >= 0
               /\ WholeDays(LastClear(last.pre), last.now) >= IntervalDays(last.pre))

\* a clear one tick before the first day is over was not made, and one made
\* when it was over
C15_Witness ==
    /\ AutoCall /\ Recurring(last.pre) /\ IntervalDays(last.pre) = 1
    /\ LastClear(last.pre) = 0
    /\ \/ last.now = TicksPerDay - 1 /\ ~last.invoked
       \/ last.now = TicksPerDay /\ last.invoked /\ pc = "restarted"

\* the fields of the settings other than lastClear are what they were
OthersKept(before, after) ==
    /\ Readable(after)
    /\ Enabled(after) = Enabled(before)
    /\ OnStartup(after) = OnStartup(before)
    /\ IntervalDays(after) = IntervalDays(before)

\* C16 (as claimed): when the check cleared with success, lastClear in the
\* persisted settings is the timestamp ClearCache returned and the other
\* three fields are unchanged; when ClearCache failed or the decision was
\* not to clear, the persisted settings are unchanged.
C16_Recorded ==
    AutoCall =>
        IF last.invoked /\ last.ret
        THEN /\ OthersKept(last.pre, settings_file)
             /\ LastClear(settings_file) = last.ts
        ELSE settings_file = last.pre

\* C16 (amended): the same, the first half for a settings write the
\* operating system carried out.
C16_RecordedWritten ==
    AutoCall =>
        IF last.invoked /\ last.ret
        THEN last.swr = "ok" =>
             /\ OthersKept(last.pre, settings_file)
             /\ LastClear(settings_file) = last.ts
             /\ last.ts = strftime(last.now)
        ELSE settings_file = last.pre

\* a clear in the second second replaced the unreadable timestamp; the interval
\* is still 2 days
C16_Witness ==
    /\ AutoCall /\ last.invoked /\ last.ret /\ last.swr = "ok"
    /\ last.pre = Json(Settings(TRUE, FALSE, 2, Garbage))
    /\ settings_file = Json(Settings(TRUE, FALSE, 2, 1))

\* C17 (as claimed): under the recurring policy with interval n, after a
\* check that cleared with success at time t ShouldClear is false from t up
\* to t + n days and true from t + n days on.
C17_Window ==
    (AutoCall /\ last.ret /\ Recurring(last.pre)) =>
        (should_auto_clear(settings_file, clock).val
            <=> clock >= last.now + IntervalDays(last.pre) * TicksPerDay)

\* C17 (amended): under the recurring policy with interval n, after a check
\* that cleared with success and whose settings write was carried out, with
\* ts the timestamp it recorded, ShouldClear is false up to ts + n days and
\* true from ts + n days on; a check made before ts + n days does not clear.
C17_WindowFromTimestamp ==
    /\ (AutoCall /\ last.ret /\ last.swr = "ok" /\ Recurring(last.pre)) =>
        (should_auto_clear(settings_file, clock).val
            <=> clock >= (last.ts + IntervalDays(last.pre) * SecondsPerDay) * TicksPerSecond)
    /\ (AutoCall /\ pc = "restarted" /\ Recurring(last.pre) /\ LastClear(last.pre) >= 0
            /\ last.now < (LastClear(last.pre) + IntervalDays(last.pre) * SecondsPerDay)
                            * TicksPerSecond) =>
        ~last.invoked

\* cleared in the second half of a second: a day after the recorded
\* timestamp, and less than a day after the clear, ShouldClear is true
C17_Witness ==
    /\ AutoCall /\ last.ret /\ last.swr = "ok" /\ Recurring(last.pre)
    /\ IntervalDays(last.pre) = 1
    /\ last.now = 1
    /\ clock = TicksPerDay
    /\ should_auto_clear(settings_file, clock).val

----------------------------------------------------------------------------
(* Clears by hand and by the scheduler (HistSpec)                          *)

\* the last-cache-clear timestamp the state file gives
LastCacheClear(stf) == Get(load_state(stf).kv, "last_cache_clear", NoTs)

\* last_auto_clear is null or not later than the state file's timestamp
Ordered(sf, stf) ==
    \/ LastClear(sf) = NoTs
    \/ LastCacheClear(stf) # NoTs /\ LastClear(sf) <= LastCacheClear(stf)

\* C29 (as claimed): a clear by hand and update_cache_settings leave
\* last_auto_clear as it is, and after any clears by hand, auto-clears and
\* settings updates last_auto_clear is null or not later than the state
\* file's last-cache-clear timestamp.
C29_OnlyAutoClear ==
    [][/\ last'.op \in {"clear_cache", "update_settings"} =>
            LastClear(settings_file') = LastClear(settings_file)
       /\ Ordered(settings_file', state_file')]_vars

\* a step that wrote one of the two files
Wrote == settings_file' # settings_file \/ state_file' # state_file

\* C29 (amended): a clear by hand leaves the settings file as it is;
\* update_cache_settings leaves last_auto_clear as it is unless its write
\* fails after truncating the file (it then reads as null); an auto-clear
\* changes it only by returning success and to the timestamp it returns;
\* and last_auto_clear stays null or not later than the state file's
\* timestamp over every step whose write of the state file is carried out.
C29_OnlyAutoClearWritten ==
    [][/\ last'.op = "clear_cache" => settings_file' = settings_file
       /\ last'.op = "update_settings" =>
            /\ state_file' = state_file
            /\ LastClear(settings_file') =
                  IF last'.swr = "torn" /\ Wrote THEN NoTs ELSE LastClear(settings_file)
       /\ (last'.op = "auto_clear" /\ LastClear(settings_file') # LastClear(settings_file)) =>
            /\ last'.invoked
            /\ \/ last'.ret /\ last'.swr = "ok" /\ LastClear(settings_file') = last'.ts
               \/ last'.ret /\ last'.swr = "torn" /\ LastClear(settings_file') = NoTs
       /\ (/\ Ordered(settings_file, state_file)
           /\ (Wrote /\ last'.op \in {"clear_cache", "auto_clear"}) => last'.wr = "ok") =>
            Ordered(settings_file', state_file')]_vars

\* a clear by hand in the second after an auto-clear that was recorded
C29_Witness ==
    /\ pc = "running"
    /\ last.op = "clear_cache" /\ last.ret /\ last.wr = "ok"
    /\ LastClear(settings_file) = 0
    /\ LastCacheClear(state_file) = 1
    /\ LastCacheClear(last.pre_state) = 0

----------------------------------------------------------------------------
(* The profile store (ProfSpec)                                            *)

\* List()
Listed(idx) == get_all_profiles(idx).list

\* C18 (as claimed): Save never overwrites an existing snapshot file, and
\* after any sequence of Save and Delete calls, two Saves within one clock
\* second included, the ids in the profile index are pairwise distinct.
C18_IdsDistinct ==
    /\ last.op = "save_profile" =>
        \A id \in DOMAIN last.pre_files.files :
            /\ id \in DOMAIN profile_files.files
            /\ profile_files.files[id] = last.pre_files.files[id]
    /\ \A i, j \in 1..Len(Listed(profiles_index)) :
        i # j => Listed(profiles_index)[i].id # Listed(profiles_index)[j].id

\* C19 (as claimed): after a Save that returned true, List() has exactly one
\* new entry, with the name and the new id, and Load(id) gives the saved
\* config; after a Delete(id) that returned true, List() has no entry with
\* that id, Load(id) finds nothing, and the index entries and snapshots of
\* the other ids are unchanged.
C19_Crud ==
    /\ (last.op = "save_profile" /\ last.ret) =>
        /\ Len(Listed(profiles_index)) = Len(Listed(last.pre_index)) + 1
        /\ SubSeq(Listed(profiles_index), 1, Len(Listed(last.pre_index)))
              = Listed(last.pre_index)
        /\ Listed(profiles_index)[Len(Listed(profiles_index))].name = last.name
        /\ Listed(profiles_index)[Len(Listed(profiles_index))].id = last.id
        /\ load_profile(profile_files, last.id).found
        /\ load_profile(profile_files, last.id).data.config = last.config
    /\ (last.op = "delete_profile" /\ last.ret) =>
        /\ last.id \notin Ids(Listed(profiles_index))
        /\ ~load_profile(profile_files, last.id).found
        /\ Listed(profiles_index) = Without(Listed(last.pre_index), last.id)
        /\ \A id \in (DOMAIN last.pre_files.files) \ {last.id} :
            /\ id \in DOMAIN profile_files.files
            /\ profile_files.files[id] = last.pre_files.files[id]

\* C20 (as claimed): Delete(id) returns true when <id>.json is already
\* missing and the index update succeeds; and whenever Delete(id) returned
\* true the persisted index has no entry with that id.
C20_DeleteReportsIndex ==
    /\ (/\ last.op = "delete_profile"
        /\ last.id \notin DOMAIN last.pre_files.files
        /\ HasProfiles(load_profiles_index(last.pre_index))
        /\ last.iwr = "ok") => last.ret
    /\ (last.op = "delete_profile" /\ last.ret) =>
        last.id \notin Ids(Listed(profiles_index))

\* the index and the snapshot files tell the same: every entry has its
\* snapshot with the same id, name, description and created, and every
\* snapshot has exactly one entry
Consistent(idx, pf) ==
    LET l == get_all_profiles(idx).list IN
    /\ \A i \in 1..Len(l) :
        /\ load_profile(pf, l[i].id).found
        /\ LET d == load_profile(pf, l[i].id).data IN
           Entry(d.id, d.name, d.description, d.created) = l[i]
    /\ \A id \in DOMAIN pf.files :
        Cardinality({i \in 1..Len(l) : l[i].id = id}) = 1

\* C30 (as claimed): after any Save and Delete calls that started from an
\* empty store and met no I/O failure, every index entry has a snapshot
\* file with the same id, name, description and created, and every
\* snapshot file has exactly one index entry.
C30_IndexMatchesFiles ==
    (last.op \in {"save_profile", "delete_profile"} /\ last.clean) =>
        Consistent(profiles_index, profile_files)

----------------------------------------------------------------------------
(* Two saves at once (RaceSpec)                                            *)

\* both calls returned True, with different ids and every write carried out
BothSaved ==
    /\ \A p \in Procs : pc[p] = "done" /\ last[p].ret /\ last[p].io_ok
    /\ last[1].id # last[2].id

EntryOf(f) == Entry(f.id, f.name, f.description, f.created)

Has(profiles, e) == \E i \in 1..Len(profiles) : profiles[i] = e

\* C24: two Saves with distinct ids that both returned True leave both
\* snapshot files; when both read the index before either wrote it the
\* index has one new entry only, that of one of the two, and the other's
\* is lost; when one read after the other wrote, the index has both.
C24_LostUpdate ==
    BothSaved =>
        /\ \A p \in Procs : load_profile(profile_files, last[p].id).found
        /\ IF last[1].pre_index = last[2].pre_index
           THEN /\ Len(Listed(profiles_index)) = Len(Listed(last[1].pre_index)) + 1
                /\ Has(Listed(profiles_index), EntryOf(last[1]))
                      # Has(Listed(profiles_index), EntryOf(last[2]))
           ELSE /\ Len(Listed(profiles_index)) = 2
                /\ \A p \in Procs : Has(Listed(profiles_index), EntryOf(last[p]))

\* both returned True, both snapshots are there, and the index lists the
\* second instance's profile only
C24_Witness ==
    /\ BothSaved
    /\ last[1].pre_index = last[2].pre_index
    /\ DOMAIN profile_files.files = {last[1].id, last[2].id}
    /\ Listed(profiles_index) = <<EntryOf(last[2])>>

====
